---- MODULE Spec2Model ----
(***************************************************************************)
(* Model of django-historicalrecords (src/src/history).                    *)
(*                                                                         *)
(* A tracked model with the fields (id, a, b) is registered with           *)
(* HistoricalRecords(fields=...).  The state is the tracked table, the     *)
(* historical table, the auth-user table, the wall clock, and one          *)
(* in-memory instance of the tracked model whose attributes the            *)
(* application assigns and on which it calls set_editor(), save(),         *)
(* save_base(raw=True) and delete(); and, for the specifications about     *)
(* registration and concurrent saves, the model class as finalize() leaves *)
(* it, the connected receivers, the historical model's fields and the      *)
(* position of each writer inside its save().                              *)
(*                                                                         *)
(* The specifications share the actions and differ in the inputs they      *)
(* draw: Spec (change detection: two record ids, raw and normal saves,     *)
(* deletes), SpecEditors (editors staged and passed, users deleted),       *)
(* SpecClock (entries dated by a wall clock that may stand still or step   *)
(* back, read through as_of), SpecClockNoList (SpecClock for the           *)
(* registration without a `fields` list), SpecScoped (two records read     *)
(* through the instance-scoped manager), SpecSchema (finalize() applied    *)
(* to a range of source schemas and `fields` lists, and rows created in    *)
(* the historical model it derives), SpecRegister (finalize() called on a  *)
(* model that already has a set_editor attribute) and SpecConcurrent /     *)
(* SpecSerialized (two writers whose saves run as the steps write row,     *)
(* read most_recent(), create entry, interleaved or one save at a time).   *)
(***************************************************************************)
EXTENDS Integers, Sequences, FiniteSets, TLC

\* ------------------------------------------------------------------ bounds
MaxHist == 3        \* history_id values handed out by the AutoField: 1..MaxHist
MaxTime == 1        \* the wall clock reads 0..MaxTime
MaxReceivers == 2   \* finalize() is called while fewer receivers are connected

\* ------------------------------------------------------------- the schema
\* model._meta.fields of the tracked model, in schema order.
Fields == <<"id", "a", "b">>

Range(s) == {s[i] : i \in DOMAIN s}

FieldNames == Range(Fields)

Ids == {1, 2}               \* primary keys of tracked records
Vals == {0, 1}              \* values of the fields a and b
DefaultVal == 0             \* Field.get_default() of a and b
Users == {"u1"}             \* rows of settings.AUTH_USER_MODEL
None == "None"              \* Python's None, as a history_editor
Times == 0..MaxTime

\* In-memory instances of the tracked model.
Instances == {[id |-> k, a |-> x, b |-> y] : k \in Ids, x \in Vals, y \in Vals}

\* The `fields` argument of HistoricalRecords(): not given, or a list of names.
\* ["a"] selects a prefix of the schema (id, a); ["b"] leaves a gap (id, b).
\* An empty list and ["a", "b"] select every field, as no list does.
NoFields == [given |-> FALSE, names |-> {}]
FieldsArg(s) == [given |-> TRUE, names |-> s]
Registrations == {NoFields, FieldsArg({"a"}), FieldsArg({"b"})}

\* The `editor` keyword of save(): absent, or a user or None.
NoKw == [given |-> FALSE, editor |-> None]
KwArgs(us) == {NoKw} \cup {[given |-> TRUE, editor |-> e] : e \in us \cup {None}}

\* A field of a model: what copy_fields reads and sets.  `unique` is
\* Field._unique; `to` is the target of a relation, "" for a plain column.
Field(name, attname, cls, pk, uniq, idx, null, to) ==
    [name |-> name, attname |-> attname, cls |-> cls, primary_key |-> pk,
     unique |-> uniq, db_index |-> idx, null |-> null, to |-> to,
     related_name |-> ""]

\* models.ForeignKey(to=..., on_delete=CASCADE, related_name=..., null=...)
\* under the attribute `name`: a ForeignKey is indexed by default.
ForeignKey(name, attname, to, related_name, null) ==
    [Field(name, attname, "ForeignKey", FALSE, FALSE, TRUE, null, to)
        EXCEPT !.related_name = related_name]

\* The fields of the tracked model (id, a, b), as field objects.
ModelFields ==
    <<Field("id", "id", "AutoField", TRUE, FALSE, FALSE, FALSE, ""),
      Field("a", "a", "IntegerField", FALSE, FALSE, FALSE, FALSE, ""),
      Field("b", "b", "IntegerField", FALSE, FALSE, FALSE, FALSE, "")>>

\* Source schemas finalize() is applied to: the primary key is the AutoField
\* id, an integer column not named id, or a one-to-one relation; the other
\* columns are plain, unique, a foreign key or a one-to-one relation.
PkFields ==
    {Field("id", "id", "AutoField", TRUE, FALSE, FALSE, FALSE, ""),
     Field("code", "code", "IntegerField", TRUE, FALSE, FALSE, FALSE, ""),
     [Field("user", "user_id", "OneToOneField", TRUE, TRUE, TRUE, FALSE, "User")
         EXCEPT !.related_name = "profile"]}

OtherFields ==
    {Field("b", "b", "IntegerField", FALSE, TRUE, FALSE, FALSE, ""),
     [Field("owner", "owner_id", "OneToOneField", FALSE, TRUE, TRUE, FALSE, "User")
         EXCEPT !.related_name = "thing"],
     ForeignKey("owner", "owner_id", "User", "things", FALSE)}

Schemas ==
    {<<pk, Field("a", "a", "IntegerField", FALSE, FALSE, FALSE, FALSE, ""), o>> :
        pk \in PkFields, o \in OtherFields}

NameSeq(fs) == [i \in DOMAIN fs |-> fs[i].name]

\* The `fields` arguments tried with a schema: none, the empty list, and every
\* list of the schema's field names.
FieldsArgs(fs) == {NoFields} \cup {FieldsArg(ns) : ns \in SUBSET Range(NameSeq(fs))}

\* The writers of the concurrent specifications.
Procs == {"w1", "w2"}

VARIABLES
    fields,             \* HistoricalRecords._fields of the registration
    table,              \* rows of the tracked model: a set of instances, one per id
    history,            \* rows of the historical model, in insertion order
    next_history_id,    \* next value of the history_id AutoField
    users,              \* existing users
    now,                \* what timezone.now() returns
    instance,           \* the in-memory instance, as last saved or deleted
    history_editor,     \* instance._history_editor
    lastOp,             \* the last operation performed, and what it did
    sender,             \* the tracked model class: its fields and the attributes
                        \* finalize() sets on it
    receivers,          \* post_save / post_delete receivers connected for sender
    history_model,      \* the fields of the historical model; <<>> before finalize()
    writers             \* per writer: how far its save() has got

vars == <<fields, table, history, next_history_id, users, now, instance,
          history_editor, lastOp, sender, receivers, history_model, writers>>

\* ------------------------------------------------- HistoricalRecords helpers
\* get_important_fields: `f.name == 'id' or not self._fields or f.name in self._fields`
get_important_fields(modelFields, flds) ==
    SelectSeq(modelFields,
              LAMBDA f : f = "id" \/ ~flds.given \/ flds.names = {} \/ f \in flds.names)

get_important_field_names(flds) == get_important_fields(Fields, flds)

\* Model.__init__(*args): positional values fill the schema's fields in schema
\* order; the fields left over get their default.
FieldIndex(f) == CHOOSE i \in DOMAIN Fields : Fields[i] = f

ModelInit(args) ==
    [f \in FieldNames |->
        IF FieldIndex(f) <= Len(args) THEN args[FieldIndex(f)] ELSE DefaultVal]

\* Outcomes of a manager call.
Return(obj) == [exc |-> "", msg |-> "", obj |-> <<obj>>]
Raise(exc, msg) == [exc |-> exc, msg |-> msg, obj |-> <<>>]

\* ------------------------------------------------------------ HistoryManager
\* get_queryset without the filter on the instance's primary key.
get_queryset_unscoped(h, inst) == Range(h)

\* get_queryset of the instance-scoped manager: filter(pk = instance.pk).
get_queryset(h, inst) == {h[i] : i \in {j \in DOMAIN h : h[j].vals["id"] = inst["id"]}}

\* Meta.ordering = ('-history_id',): the row that [0] takes from a query set.
First(qs) == CHOOSE e \in qs : \A o \in qs : o.history_id <= e.history_id

most_recent(h, inst, flds) ==
    LET names == get_important_field_names(flds)
        qs == get_queryset(h, inst)
    IN  IF qs = {}
        THEN Raise("DoesNotExist", "has no historical record.")
        ELSE Return(ModelInit([i \in 1..Len(names) |-> First(qs).vals[names[i]]]))

\* as_of read with the entries ordered by history_date: the latest-dated entry.
as_of_row_latest_date(h, inst, date) ==
    LET qs == {e \in get_queryset(h, inst) : e.history_date <= date}
    IN  CHOOSE e \in qs : \A o \in qs : o.history_date <= e.history_date

\* The row as_of reads: self.filter(history_date__lte=date)...[0].
as_of_row(h, inst, date) ==
    First({e \in get_queryset(h, inst) : e.history_date <= date})

\* as_of asks values_list for every field of the tracked model, which fails
\* when the historical model lacks one of them.
as_of(h, inst, date, flds) ==
    LET stored == Range(get_important_field_names(flds))
        qs == {e \in get_queryset(h, inst) : e.history_date <= date}
    IN  IF \E f \in FieldNames : f \notin stored
        THEN Raise("FieldError", "Cannot resolve keyword into field.")
        ELSE IF qs = {}
        THEN Raise("DoesNotExist", "had not yet been created.")
        ELSE IF as_of_row(h, inst, date).history_type = "-"
        THEN Raise("DoesNotExist", "had already been deleted.")
        ELSE Return(ModelInit([i \in 1..Len(Fields) |->
                                  as_of_row(h, inst, date).vals[Fields[i]]]))

\* Model.history read on the class (bound = <<>>) or on an instance
\* (bound = <<instance>>): HistoryDescriptor.__get__ and the query set of the
\* manager it returns.
manager_queryset(h, bound) ==
    IF bound = <<>> THEN Range(h) ELSE get_queryset(h, bound[1])

\* ------------------------------------------------------------- HistoryEntry
\* HistoricalObjectDescriptor.__get__: self.model(**values) with the values of
\* the entry's important fields; the other fields get their default.
history_object(e) ==
    [f \in FieldNames |-> IF f \in DOMAIN e.vals THEN e.vals[f] ELSE DefaultVal]

\* previous_entry with the query set in ascending order: the oldest entry.
previous_entry_oldest(h, e) ==
    LET qs == {o \in get_queryset(h, history_object(e)) : o.history_id < e.history_id}
    IN  IF qs = {} THEN <<>>
        ELSE <<CHOOSE o \in qs : \A q \in qs : o.history_id <= q.history_id>>

\* previous_entry: <<>> is None, <<p>> the entry p.
previous_entry(h, e) ==
    LET qs == {o \in get_queryset(h, history_object(e)) : o.history_id < e.history_id}
    IN  IF qs = {} THEN <<>> ELSE <<First(qs)>>

\* HistoryChange(name, from_value, to_value, verbose_name); from_value is <<>>
\* for None and <<v>> for the value v.
HistoryChange(name, from_value, to_value, verbose_name) ==
    [name |-> name, from_value |-> from_value, to_value |-> to_value,
     verbose_name |-> verbose_name]

\* get_verbose_name: the verbose_name of the tracked model's field.
get_verbose_name(field_name) == IF field_name = "id" THEN "ID" ELSE field_name

modified_fields(h, e, flds) ==
    LET names == get_important_field_names(flds)
        prev == previous_entry(h, e)
    IN  IF prev # <<>>
        THEN LET modified == SelectSeq(names, LAMBDA f : prev[1].vals[f] # e.vals[f])
             IN  [i \in DOMAIN modified |->
                     HistoryChange(modified[i], <<prev[1].vals[modified[i]]>>,
                                   e.vals[modified[i]], get_verbose_name(modified[i]))]
        ELSE [i \in DOMAIN names |->
                 HistoryChange(names[i], <<>>, e.vals[names[i]], get_verbose_name(names[i]))]

\* ------------------------------------------------------ the historical model
\* Field.unique: `self._unique or self.primary_key`.
IsUnique(f) == f.unique \/ f.primary_key

\* copy_fields' loop body without the branch that resets primary_key and
\* unique.
copy_field_keeps_unique(field) ==
    LET f1 == IF field.cls = "AutoField"
              THEN [field EXCEPT !.cls = "IntegerField"]
              ELSE field
        f3 == IF f1.cls \in {"ForeignKey", "OneToOneField"}
              THEN [f1 EXCEPT !.related_name = "+"]
              ELSE f1
    IN  IF f3.cls = "OneToOneField"
        THEN [ForeignKey(f3.name, f3.attname, f3.to, "+", TRUE)
                 EXCEPT !.primary_key = f3.primary_key, !.unique = f3.unique]
        ELSE f3

\* The body of copy_fields' loop for one field.
copy_field(field) ==
    LET f1 == IF field.cls = "AutoField"
              THEN [field EXCEPT !.cls = "IntegerField"]
              ELSE field
        f2 == IF f1.primary_key \/ IsUnique(f1)
              THEN [f1 EXCEPT !.primary_key = FALSE, !.unique = FALSE, !.db_index = TRUE]
              ELSE f1
        f3 == IF f2.cls \in {"ForeignKey", "OneToOneField"}
              THEN [f2 EXCEPT !.related_name = "+"]
              ELSE f2
    IN  IF f3.cls = "OneToOneField"
        THEN ForeignKey(f3.name, f3.attname, f3.to, "+", TRUE)
        ELSE f3

\* copy_fields: the copies of the important fields, in their order.
copy_fields(modelFields, flds) ==
    LET names == Range(get_important_fields(NameSeq(modelFields), flds))
        important == SelectSeq(modelFields, LAMBDA f : f.name \in names)
    IN  [i \in DOMAIN important |-> copy_field(important[i])]

\* The columns HistoryEntry declares itself.
HistoryEntryFields ==
    <<Field("history_id", "history_id", "AutoField", TRUE, FALSE, FALSE, FALSE, ""),
      Field("history_date", "history_date", "DateTimeField", FALSE, FALSE, FALSE, FALSE, ""),
      Field("history_type", "history_type", "CharField", FALSE, FALSE, FALSE, FALSE, ""),
      ForeignKey("history_editor", "history_editor_id", "User", "_history_editor", TRUE)>>

\* create_history_model: HistoryEntry with the copied fields added.
create_history_model(modelFields, flds) ==
    HistoryEntryFields \o copy_fields(modelFields, flds)

\* manager.create(history_type=..., history_editor=..., **attrs) on a
\* historical model with the fields hm: the insert is refused (IntegrityError,
\* the table is left as it was) when a unique column of hm other than the
\* AutoField would hold a value twice.
manager_create(h, hm, nid, date, type, editor, attrs) ==
    IF \E i \in DOMAIN hm :
          /\ IsUnique(hm[i]) /\ hm[i].attname \in DOMAIN attrs
          /\ \E j \in DOMAIN h : h[j].vals[hm[i].attname] = attrs[hm[i].attname]
    THEN h
    ELSE Append(h, [history_id |-> nid,
                    history_date |-> date,
                    history_type |-> type,
                    history_editor |-> editor,
                    vals |-> attrs])

\* finalize(sender): the historical model is created, the receivers are
\* connected, the descriptor is set, save is wrapped, and last of all
\* create_set_editor_method raises if sender has an attribute set_editor.
\* `cls` is the model class with its attributes; the result carries the
\* exception raised, if any, and the state finalize leaves behind.
finalize(cls, recv, flds) ==
    LET wrapped == [cls EXCEPT !.descriptor = @ + 1, !.save_wraps = @ + 1]
    IN  [exc |-> IF cls.set_editor THEN "Exception" ELSE "",
         sender |-> [wrapped EXCEPT !.set_editor = TRUE],
         receivers |-> recv + 1,
         history_model |-> create_history_model(cls.fields, flds)]

\* --------------------------------------------------------- HistoricalRecords
create_historical_record(h, nid, date, inst, editor, type, flds) ==
    Append(h, [history_id |-> nid,
               history_date |-> date,
               history_type |-> type,
               history_editor |-> editor,
               vals |-> [f \in Range(get_important_field_names(flds)) |-> inst[f]]])

\* post_save with `save` initialised to False: a record without history is
\* never given its first entry.
post_save_save_starts_false(h, nid, date, inst, editor, created, raw, flds) ==
    IF raw THEN h
    ELSE LET mr == most_recent(h, inst, flds)
             save == IF mr.exc = "DoesNotExist"
                     THEN FALSE
                     ELSE \E f \in Range(get_important_field_names(flds)) :
                              inst[f] # mr.obj[1][f]
         IN  IF save
             THEN create_historical_record(h, nid, date, inst, editor,
                                           IF created THEN "+" ELSE "~", flds)
             ELSE h

\* post_save that gives the first entry of a record the type created, whatever
\* the `created` flag says.
post_save_first_is_created(h, nid, date, inst, editor, created, raw, flds) ==
    IF raw THEN h
    ELSE LET mr == most_recent(h, inst, flds)
             save == IF mr.exc = "DoesNotExist"
                     THEN TRUE
                     ELSE \E f \in Range(get_important_field_names(flds)) :
                              inst[f] # mr.obj[1][f]
         IN  IF save
             THEN create_historical_record(h, nid, date, inst, editor,
                      IF created \/ mr.exc = "DoesNotExist" THEN "+" ELSE "~", flds)
             ELSE h

\* post_save without the test of the `raw` keyword.
post_save_ignores_raw(h, nid, date, inst, editor, created, raw, flds) ==
    LET mr == most_recent(h, inst, flds)
        save == IF mr.exc = "DoesNotExist"
                THEN TRUE
                ELSE \E f \in Range(get_important_field_names(flds)) :
                         inst[f] # mr.obj[1][f]
    IN  IF save
        THEN create_historical_record(h, nid, date, inst, editor,
                                      IF created THEN "+" ELSE "~", flds)
        ELSE h

post_save(h, nid, date, inst, editor, created, raw, flds) ==
    IF raw THEN h
    ELSE LET mr == most_recent(h, inst, flds)
             save == IF mr.exc = "DoesNotExist"
                     THEN TRUE
                     ELSE \E f \in Range(get_important_field_names(flds)) :
                              inst[f] # mr.obj[1][f]
         IN  IF save
             THEN create_historical_record(h, nid, date, inst, editor,
                                           IF created THEN "+" ELSE "~", flds)
             ELSE h

\* post_save from the point where most_recent() has returned mr: the
\* comparison with the instance and the creation of the entry.
post_save_write(h, mr, nid, date, inst, editor, created, flds) ==
    LET save == IF mr.exc = "DoesNotExist"
                THEN TRUE
                ELSE \E f \in Range(get_important_field_names(flds)) :
                         inst[f] # mr.obj[1][f]
    IN  IF save
        THEN create_historical_record(h, nid, date, inst, editor,
                                      IF created THEN "+" ELSE "~", flds)
        ELSE h

\* Signal.send of post_save: each of the n connected receivers runs
\* post_save in turn, on the table as the receiver before it left it.
send_post_save(n, h, nid, date, inst, editor, created, raw, flds) ==
    LET after[i \in 0..n] ==
            IF i = 0 THEN h
            ELSE post_save(after[i - 1], nid + Len(after[i - 1]) - Len(h), date,
                           inst, editor, created, raw, flds)
    IN  after[n]

\* post_delete that attributes the deletion to the staged editor, as post_save
\* does for a save.
post_delete_staged_editor(h, nid, date, inst, staged, flds) ==
    create_historical_record(h, nid, date, inst, staged, "-", flds)

\* staged is instance._history_editor, which post_delete does not read.
post_delete(h, nid, date, inst, staged, flds) ==
    create_historical_record(h, nid, date, inst, None, "-", flds)

\* new_save: kwargs.pop('editor', getattr(self, '_history_editor', None))
new_save(kw, staged) == IF kw.given THEN kw.editor ELSE staged

\* Signal.send of post_delete to the n connected receivers.
send_post_delete(n, h, nid, date, inst, staged, flds) ==
    LET after[i \in 0..n] ==
            IF i = 0 THEN h
            ELSE post_delete(after[i - 1], nid + i - 1, date, inst, staged, flds)
    IN  after[n]

RowExists(t, k) == \E r \in t : r.id = k

\* ------------------------------------------------------------------- state
Other == [op |-> "other", raw |-> FALSE, created |-> FALSE, wrote |-> FALSE]

\* The tracked model class after HistoricalRecords has been finalized on it
\* once: the descriptor is set, save is wrapped, set_editor is installed.
Registered == [fields |-> ModelFields, set_editor |-> TRUE, save_wraps |-> 1, descriptor |-> 1]

\* A writer that is not in a save().
NoRead == [exc |-> "", msg |-> "", obj |-> <<>>]

IdleWriter == [pc |-> "idle", inst |-> [id |-> 1, a |-> DefaultVal, b |-> DefaultVal],
               created |-> FALSE, mr |-> NoRead]

\* What the actions of the tracked instance leave alone: the registration and
\* the writers.
registration == <<sender, receivers, history_model, writers>>

InitWith(regs, us) ==
    /\ fields \in regs
    /\ table = {}
    /\ history = <<>>
    /\ next_history_id = 1
    /\ users = us
    /\ now = 0
    /\ instance = [id |-> 1, a |-> DefaultVal, b |-> DefaultVal]
    /\ history_editor = None
    /\ lastOp = Other
    /\ sender = Registered
    /\ receivers = 1
    /\ history_model = create_history_model(ModelFields, fields)
    /\ writers = [p \in Procs |-> IdleWriter]

\* instance.set_editor(editor)
set_editor(editor) ==
    /\ editor # history_editor
    /\ history_editor' = editor
    /\ lastOp' = Other
    /\ UNCHANGED <<fields, table, history, next_history_id, users, now, instance>>
    /\ UNCHANGED registration

\* The application assigns the instance's attributes (inst) and calls
\* instance.save(editor=...) (raw = FALSE), or the fixture loader calls
\* Model.save_base(instance, raw=True), which does not pass through new_save.
\* The row is written first (created: there was no row with this pk), then
\* the post_save signal runs.  The AutoField is capped at MaxHist; a save
\* that names a deleted user as editor is refused by the foreign key and is
\* left out.
Save(inst, kw, raw) ==
    LET created == ~RowExists(table, inst.id)
        editor == IF raw THEN history_editor ELSE new_save(kw, history_editor)
        h == send_post_save(receivers, history, next_history_id, now, inst, editor,
                            created, raw, fields)
    IN  /\ raw => ~kw.given
        /\ ~raw => next_history_id + receivers - 1 <= MaxHist /\ editor \in users \cup {None}
        /\ instance' = inst
        /\ history_editor' = editor
        /\ table' = {r \in table : r.id # inst.id} \cup {inst}
        /\ history' = h
        /\ next_history_id' = next_history_id + Len(h) - Len(history)
        /\ lastOp' = [op |-> "save", raw |-> raw, created |-> created, wrote |-> h # history]
        /\ UNCHANGED <<fields, users, now>>
        /\ UNCHANGED registration

\* instance.delete() of a persisted record, then the post_delete signal.
Delete(inst) ==
    /\ RowExists(table, inst.id)
    /\ next_history_id + receivers - 1 <= MaxHist
    /\ instance' = inst
    /\ table' = {r \in table : r.id # inst.id}
    /\ history' = send_post_delete(receivers, history, next_history_id, now, inst,
                                    history_editor, fields)
    /\ next_history_id' = next_history_id + receivers
    /\ lastOp' = [op |-> "delete", raw |-> FALSE, created |-> FALSE, wrote |-> receivers > 0]
    /\ UNCHANGED <<fields, users, now, history_editor>>
    /\ UNCHANGED registration

\* The wall clock moves (forward, or back when it is adjusted).
SetClock(t) ==
    /\ t # now
    /\ now' = t
    /\ lastOp' = Other
    /\ UNCHANGED <<fields, table, history, next_history_id, users, instance, history_editor>>
    /\ UNCHANGED registration

\* A user is deleted: history_editor is a ForeignKey with on_delete=CASCADE.
DeleteUser(u) ==
    /\ u \in users
    /\ users' = users \ {u}
    /\ history' = SelectSeq(history, LAMBDA e : e.history_editor # u)
    /\ lastOp' = [Other EXCEPT !.op = "delete_user"]
    /\ UNCHANGED <<fields, table, next_history_id, now, instance, history_editor>>
    /\ UNCHANGED registration

\* HistoricalRecords(fields=...) is finalized on the model class: by
\* class_prepared, or by monkeypatch_history_for_model.  What finalize has done
\* before it raises stays done.
Finalize ==
    LET r == finalize(sender, receivers, fields)
    IN  /\ receivers < MaxReceivers
        /\ sender' = r.sender
        /\ receivers' = r.receivers
        /\ history_model' = r.history_model
        /\ lastOp' = [Other EXCEPT !.op = "finalize"]
        /\ UNCHANGED <<fields, table, history, next_history_id, users, now, instance,
                       history_editor, writers>>

\* The attnames of the important fields of a model with the fields modelFields.
important_field_names(modelFields, flds) ==
    {modelFields[i].attname :
        i \in {j \in DOMAIN modelFields :
                  modelFields[j].name \in Range(get_important_fields(NameSeq(modelFields), flds))}}

\* create_historical_record for the record with primary key 1 of a finalized
\* model, whose other columns all hold v: manager.create on the historical
\* model as finalize derived it.  The record is created when it does not
\* exist (no entry yet, or deleted), changed or deleted when it does.
CreateEntry(type, v) ==
    LET pk == {sender.fields[i].attname : i \in {j \in DOMAIN sender.fields : sender.fields[j].primary_key}}
        attrs == [n \in important_field_names(sender.fields, fields) |-> IF n \in pk THEN 1 ELSE v]
        h == manager_create(history, history_model, next_history_id, now, type, None, attrs)
    IN  /\ receivers > 0
        /\ next_history_id <= MaxHist
        /\ type = "+" <=> (history = <<>> \/ history[Len(history)].history_type = "-")
        /\ history' = h
        /\ next_history_id' = next_history_id + 1
        /\ lastOp' = [op |-> "create", raw |-> FALSE, created |-> type = "+", wrote |-> h # history]
        /\ UNCHANGED <<fields, table, users, now, instance, history_editor>>
        /\ UNCHANGED registration

\* The number of writers inside a save().
Saving == Cardinality({p \in Procs : writers[p].pc # "idle"})

\* A writer's save(), step 1: original_save writes the row.  The save is
\* started only while the AutoField has a value left for its entry.
Persist(p, inst) ==
    /\ writers[p].pc = "idle"
    /\ next_history_id + Saving <= MaxHist
    /\ table' = {r \in table : r.id # inst.id} \cup {inst}
    /\ writers' = [writers EXCEPT ![p] = [pc |-> "saved", inst |-> inst,
                                          created |-> ~RowExists(table, inst.id),
                                          mr |-> NoRead]]
    /\ lastOp' = [Other EXCEPT !.op = "persist"]
    /\ UNCHANGED <<fields, history, next_history_id, users, now, instance, history_editor,
                   sender, receivers, history_model>>

\* Step 2: post_save calls instance.history.most_recent().
ReadMostRecent(p) ==
    /\ writers[p].pc = "saved"
    /\ writers' = [writers EXCEPT ![p].pc = "read",
                                  ![p].mr = most_recent(history, writers[p].inst, fields)]
    /\ lastOp' = [Other EXCEPT !.op = "read"]
    /\ UNCHANGED <<fields, table, history, next_history_id, users, now, instance,
                   history_editor, sender, receivers, history_model>>

\* Step 3: post_save compares the instance with what it read and creates the
\* entry.
CreateRecord(p) ==
    LET w == writers[p]
        h == post_save_write(history, w.mr, next_history_id, now, w.inst, None,
                             w.created, fields)
    IN  /\ w.pc = "read"
        /\ history' = h
        /\ next_history_id' = next_history_id + Len(h) - Len(history)
        /\ writers' = [writers EXCEPT ![p] = IdleWriter]
        /\ lastOp' = [op |-> "create_record", raw |-> FALSE, created |-> w.created,
                       wrote |-> h # history]
        /\ UNCHANGED <<fields, table, users, now, instance, history_editor,
                       sender, receivers, history_model>>

\* ---------------------------------------------------------- specifications
\* Change detection: record 1 with every value of (a, b), a second record,
\* normal and raw saves, deletes.  No user exists and the clock stands still.
SavedInstances == {i \in Instances : i.id = 1 \/ (i.a = 1 /\ i.b = 1)}

Init == InitWith(Registrations, {})

Next ==
    \/ \E inst \in SavedInstances, raw \in BOOLEAN : Save(inst, NoKw, raw)
    \/ \E inst \in SavedInstances : Delete(inst)

Spec == Init /\ [][Next]_vars

\* Editors: one record whose field a varies; editors are staged with
\* set_editor or passed to save(); users are deleted.
EditedInstances == {i \in Instances : i.id = 1 /\ i.b = DefaultVal}

InitEditors == InitWith(Registrations, Users)

NextEditors ==
    \/ \E e \in users \cup {None} : set_editor(e)
    \/ \E inst \in EditedInstances, kw \in KwArgs(users), raw \in BOOLEAN : Save(inst, kw, raw)
    \/ \E inst \in EditedInstances : Delete(inst)
    \/ \E u \in Users : DeleteUser(u)

SpecEditors == InitEditors /\ [][NextEditors]_vars

\* Clock: one record whose field a varies, saved and deleted while the clock
\* moves between the operations in either direction.
InitClock == InitWith(Registrations, {})

NextClock ==
    \/ \E inst \in EditedInstances, raw \in BOOLEAN : Save(inst, NoKw, raw)
    \/ \E inst \in EditedInstances : Delete(inst)
    \/ \E t \in Times : SetClock(t)

SpecClock == InitClock /\ [][NextClock]_vars

\* The same without a `fields` list, the registration under which the
\* historical model has every field as_of asks for.
InitClockNoList == InitWith({NoFields}, {})

SpecClockNoList == InitClockNoList /\ [][NextClock]_vars

\* Reads: two records saved and deleted alternately and read through the
\* instance-scoped manager.
NextScoped ==
    \/ \E inst \in SavedInstances : Save(inst, NoKw, FALSE)
    \/ \E inst \in SavedInstances : Delete(inst)

SpecScoped == Init /\ [][NextScoped]_vars

\* Schemas: finalize() on each source schema with each `fields` argument, then
\* entries created for one record in the historical model it derived.
Unregistered(fs) == [fields |-> fs, set_editor |-> FALSE, save_wraps |-> 0, descriptor |-> 0]

InitSchema ==
    /\ sender \in {Unregistered(fs) : fs \in Schemas}
    /\ fields \in FieldsArgs(sender.fields)
    /\ receivers = 0
    /\ history_model = <<>>
    /\ table = {}
    /\ history = <<>>
    /\ next_history_id = 1
    /\ users = {}
    /\ now = 0
    /\ instance = IdleWriter.inst
    /\ history_editor = None
    /\ lastOp = Other
    /\ writers = [p \in Procs |-> IdleWriter]

NextSchema ==
    \/ Finalize
    \/ \E type \in {"+", "~", "-"}, v \in Vals : CreateEntry(type, v)

SpecSchema == InitSchema /\ [][NextSchema]_vars

\* Registration: the tracked model has been finalized once, or it defines a
\* set_editor method of its own and has not been finalized; finalize() is
\* called (again), and the record is saved and deleted.
OwnSetEditor == [Unregistered(ModelFields) EXCEPT !.set_editor = TRUE]

InitRegister ==
    /\ fields \in Registrations
    /\ \/ /\ sender = Registered
          /\ receivers = 1
          /\ history_model = create_history_model(ModelFields, fields)
       \/ /\ sender = OwnSetEditor
          /\ receivers = 0
          /\ history_model = <<>>
    /\ table = {}
    /\ history = <<>>
    /\ next_history_id = 1
    /\ users = {}
    /\ now = 0
    /\ instance = IdleWriter.inst
    /\ history_editor = None
    /\ lastOp = Other
    /\ writers = [p \in Procs |-> IdleWriter]

NextRegister ==
    \/ Finalize
    \/ \E inst \in EditedInstances, raw \in BOOLEAN : Save(inst, NoKw, raw)
    \/ \E inst \in EditedInstances : Delete(inst)

SpecRegister == InitRegister /\ [][NextRegister]_vars

\* Writers: two writers save record 1, each save as three steps that
\* interleave freely with the other writer's.
WriterInstances == {i \in Instances : i.id = 1}

NextConcurrent ==
    \/ \E p \in Procs, inst \in WriterInstances : Persist(p, inst)
    \/ \E p \in Procs : ReadMostRecent(p)
    \/ \E p \in Procs : CreateRecord(p)

SpecConcurrent == Init /\ [][NextConcurrent]_vars

\* The same writers when the saves of the record are serialized: a save
\* starts only when no other is under way.
NextSerialized ==
    \/ \E p \in Procs, inst \in WriterInstances : Saving = 0 /\ Persist(p, inst)
    \/ \E p \in Procs : ReadMostRecent(p)
    \/ \E p \in Procs : CreateRecord(p)

SpecSerialized == Init /\ [][NextSerialized]_vars

\* ------------------------------------------------------- reading the state
\* The entries of record k, in the order they were created.
EntriesOf(h, k) == SelectSeq(h, LAMBDA e : e.vals["id"] = k)

Last(s) == s[Len(s)]

ImportantNames == Range(get_important_field_names(fields))

\* The important-field values of an instance, as an entry stores them.
Stored(inst) == [f \in ImportantNames |-> inst[f]]

NonRawSave == lastOp.op = "save" /\ ~lastOp.raw

\* -------------------------------------------------------------------- C1
\* The step is a non-raw save() of the instance instance'.
NonRawSaveStep == lastOp'.op = "save" /\ ~lastOp'.raw

\* The step appends exactly one entry and leaves the others as they were.
AppendsOne == Len(history') = Len(history) + 1 /\ SubSeq(history', 1, Len(history)) = history

\* C1 as stated: immediately after a non-raw insert of a record with id k,
\* whatever preceded it, the history of k holds exactly one entry of type
\* created.
C1_ExactlyOneCreatedAfterInsert ==
    (NonRawSave /\ lastOp.created) =>
        Cardinality({i \in DOMAIN history :
                        /\ history[i].vals["id"] = instance.id
                        /\ history[i].history_type = "+"}) = 1

\* C1 as amended: a non-raw insert of a record whose id has no history entry
\* leaves the history of that id holding exactly one entry, of type created;
\* a non-raw insert under an id that has history appends at most one entry,
\* of type created.
C1_InsertHistorizes ==
    [][(NonRawSaveStep /\ lastOp'.created) =>
            /\ get_queryset(history, instance') = {} =>
                  /\ Len(EntriesOf(history', instance'.id)) = 1
                  /\ EntriesOf(history', instance'.id)[1].history_type = "+"
            /\ \/ history' = history
               \/ /\ AppendsOne
                  /\ Last(history').history_type = "+"
                  /\ Last(history').vals["id"] = instance'.id]_vars

\* A non-raw insert has just written the first entry of the record's history.
C1_Witness ==
    /\ NonRawSave /\ lastOp.created /\ lastOp.wrote
    /\ Len(EntriesOf(history, instance.id)) = 1
    /\ EntriesOf(history, instance.id)[1].history_type = "+"

\* -------------------------------------------------------------------- C2
\* The entry that most_recent() and as_of() are meant to read for inst.
Latest(h, inst) == First(get_queryset(h, inst))

\* The row of record k in the tracked table.
Row(t, k) == CHOOSE r \in t : r.id = k

\* C2: under every registration, a non-raw save of a record that has history
\* and whose important fields all equal the values stored in its most recent
\* entry appends no entry.
C2_NoOpSaveAppendsNothing ==
    [][(/\ NonRawSaveStep
        /\ get_queryset(history, instance') # {}
        /\ Latest(history, instance').vals = Stored(instance'))
            => history' = history]_vars

\* -------------------------------------------------------------------- C3
\* C3: for a record with history whose saved values are those of its most
\* recent entry, changing one important field and saving (a non-raw update)
\* appends exactly one entry, of type changed, that stores the record's
\* values after the save.
C3_ChangeAppendsChanged ==
    [][(/\ NonRawSaveStep
        /\ RowExists(table, instance'.id)
        /\ get_queryset(history, instance') # {}
        /\ Latest(history, instance').vals = Stored(Row(table, instance'.id))
        /\ Cardinality({f \in ImportantNames :
                           instance'[f] # Row(table, instance'.id)[f]}) = 1)
            => /\ AppendsOne
               /\ Last(history').history_type = "~"
               /\ Last(history').vals = Stored(instance')]_vars

\* -------------------------------------------------------------------- C4
\* C4 as stated: a non-raw save of a record whose id has no history entry
\* writes an entry of type created, be the save an insert or an update.
C4_FirstEntryIsCreated ==
    [][(NonRawSaveStep /\ get_queryset(history, instance') = {})
            => /\ Len(EntriesOf(history', instance'.id)) = 1
               /\ EntriesOf(history', instance'.id)[1].history_type = "+"]_vars

\* C4 as amended: a non-raw save of a record whose id has no history entry
\* appends exactly one entry, without comparing anything; the entry stores
\* the record's values and has type created when the save inserted the row
\* and type changed when it updated a row that was not yet historized.
C4_FirstEntryTypeFollowsCreated ==
    [][(NonRawSaveStep /\ get_queryset(history, instance') = {})
            => /\ AppendsOne
               /\ Len(EntriesOf(history', instance'.id)) = 1
               /\ Last(history').vals = Stored(instance')
               /\ Last(history').history_type =
                     (IF RowExists(table, instance'.id) THEN "~" ELSE "+")]_vars

\* A non-raw update has just written the first entry of a record that was
\* loaded raw: the entry has type changed.
C4_Witness ==
    /\ NonRawSave /\ ~lastOp.created /\ lastOp.wrote
    /\ Len(EntriesOf(history, instance.id)) = 1
    /\ EntriesOf(history, instance.id)[1].history_type = "~"

\* -------------------------------------------------------------------- C5
\* C5: a delete appends exactly one entry, of type deleted, for the record's
\* id, whatever the most recent entry holds; its history_editor is null and
\* it stores the record's values at deletion.
C5_DeleteAppendsDeleted ==
    [][lastOp'.op = "delete"
            => /\ AppendsOne
               /\ Last(history').history_type = "-"
               /\ Last(history').history_editor = None
               /\ Last(history').vals = Stored(instance')]_vars

\* A delete has just written its entry while an editor was staged on the
\* instance and the record's values were those of the entry before.
C5_Witness ==
    /\ lastOp.op = "delete"
    /\ history_editor # None
    /\ Len(EntriesOf(history, instance.id)) >= 2
    /\ LET es == EntriesOf(history, instance.id)
       IN  es[Len(es) - 1].vals = es[Len(es)].vals

\* -------------------------------------------------------------------- C6
\* C6: a raw save, insert or update, leaves the whole history unchanged.
C6_RawSaveLeavesHistory ==
    [][(lastOp'.op = "save" /\ lastOp'.raw) => history' = history]_vars

\* A raw save has just updated a record whose values now differ from those
\* of its most recent entry.
C6_Witness ==
    /\ lastOp.op = "save" /\ lastOp.raw /\ ~lastOp.created
    /\ get_queryset(history, instance) # {}
    /\ Latest(history, instance).vals # Stored(instance)

\* -------------------------------------------------------------------- C7
\* C7: the history is append-only: whatever the operation, every entry stays
\* as it was created and at most one entry is added.
C7_AppendOnly ==
    [][/\ \A i \in DOMAIN history : \E j \in DOMAIN history' : history'[j] = history[i]
       /\ Len(history') <= Len(history) + 1]_vars

\* -------------------------------------------------------------------- C8
\* The record ids the application reads the history of.
ReadInstances == {i \in Instances : i.a = DefaultVal /\ i.b = DefaultVal}

NotFound == Raise("DoesNotExist", "had not yet been created.")

AlreadyDeleted == Raise("DoesNotExist", "had already been deleted.")

\* The entries of inst's record dated t or earlier.
Dated(inst, t) == {e \in get_queryset(history, inst) : e.history_date <= t}

\* C8: under every registration and for every timestamp t, as_of(t) reads the
\* entry with the highest history_id among the record's entries dated t or
\* earlier: it fails with NotFound when there is none, fails with the
\* already-deleted condition (not NotFound) when that entry is a deletion,
\* and otherwise returns an instance holding that entry's stored values.
C8_AsOfContract ==
    \A inst \in ReadInstances, t \in Times :
        LET r == as_of(history, inst, t, fields)
        IN  IF Dated(inst, t) = {}
            THEN r = NotFound
            ELSE IF First(Dated(inst, t)).history_type = "-"
            THEN r.exc # "" /\ r # NotFound /\ r = AlreadyDeleted
            ELSE /\ r.exc = ""
                 /\ \A f \in ImportantNames : r.obj[1][f] = First(Dated(inst, t)).vals[f]

\* -------------------------------------------------------------------- C9
\* C9: once a record has been deleted, in every later state as_of(t) fails
\* with the already-deleted condition for every t at or after the deletion
\* entry's date, and most_recent() succeeds with the values stored in the
\* deletion entry.
C9_DeletionTerminal ==
    \A inst \in ReadInstances, i \in DOMAIN history :
        (history[i].vals["id"] = inst.id /\ history[i].history_type = "-") =>
            /\ \A t \in Times :
                   t >= history[i].history_date =>
                       as_of(history, inst, t, fields) = AlreadyDeleted
            /\ most_recent(history, inst, fields).exc = ""
            /\ \A f \in ImportantNames :
                   most_recent(history, inst, fields).obj[1][f] = history[i].vals[f]

\* ------------------------------------------------------------------- C10
\* C10: history_id strictly increases in the order the entries were created,
\* and for timestamps t1 <= t2 at which as_of succeeds, the entry as_of(t2)
\* reads has a history_id at least that of the entry as_of(t1) reads, also
\* when the dates of successive entries collide or decrease.
C10_MonotonicOrdering ==
    /\ \A i \in DOMAIN history :
           i < Len(history) => history[i].history_id < history[i + 1].history_id
    /\ \A inst \in ReadInstances, t1 \in Times :
           as_of(history, inst, t1, fields).exc = "" =>
               \A t2 \in t1..MaxTime :
                   as_of(history, inst, t2, fields).exc = "" =>
                       as_of_row(history, inst, t2).history_id
                           >= as_of_row(history, inst, t1).history_id

\* Two entries of a record, the later one dated before the earlier one, and
\* as_of succeeds at both dates.
C10_Witness ==
    \E inst \in ReadInstances, i, j \in DOMAIN history :
        /\ i < j
        /\ history[i].vals["id"] = inst.id /\ history[j].vals["id"] = inst.id
        /\ history[j].history_date < history[i].history_date
        /\ as_of(history, inst, history[j].history_date, fields).exc = ""
        /\ as_of(history, inst, history[i].history_date, fields).exc = ""

\* ------------------------------------------------------------------- C11
\* C11: in every state reached by saves, raw or not, in which a record has a
\* row and has history, most_recent() returns an instance that holds, for
\* every important field, the value the row holds.
C11_RoundTrip ==
    \A inst \in ReadInstances :
        (RowExists(table, inst.id) /\ get_queryset(history, inst) # {}) =>
            /\ most_recent(history, inst, fields).exc = ""
            /\ \A f \in ImportantNames :
                   most_recent(history, inst, fields).obj[1][f] = Row(table, inst.id)[f]

\* ------------------------------------------------------------------- C12
\* C12: under every registration, most_recent() on an instance with id k
\* fails with DoesNotExist exactly when k has no entry, and otherwise returns
\* an instance in which each important field holds the value stored for that
\* field in the entry of k with the highest history_id.
C12_MostRecentContract ==
    \A inst \in ReadInstances :
        LET r == most_recent(history, inst, fields)
        IN  IF EntriesOf(history, inst.id) = <<>>
            THEN r.exc = "DoesNotExist"
            ELSE /\ r.exc = ""
                 /\ \A f \in ImportantNames : r.obj[1][f] = Latest(history, inst).vals[f]

\* ------------------------------------------------------------------- C13
\* C13: a non-raw save attaches to the entry it writes the editor passed as
\* save(editor=...), or else the editor staged with set_editor, and clears
\* the staged editor; so a save that writes an entry, is given no editor and
\* directly follows another save of the instance writes history_editor null.
C13_EditorOneShot ==
    [][\A inst \in EditedInstances, kw \in KwArgs(users) :
           Save(inst, kw, FALSE) =>
               /\ lastOp'.wrote =>
                      Last(history').history_editor =
                          (IF kw.given THEN kw.editor ELSE history_editor)
               /\ history_editor' = None
               /\ (~kw.given /\ lastOp.op = "save" /\ lastOp'.wrote) =>
                      Last(history').history_editor = None]_vars

\* ------------------------------------------------------------------- C14
\* C14: what is read through an instance with id k (its query set,
\* most_recent, as_of, and the predecessor and diff of each of its entries) is
\* what would be read if the entries of k were the only ones in the table,
\* and the query set consists of entries of k; read on the class, the manager
\* returns every entry.
C14_InstanceScoping ==
    /\ \A inst \in ReadInstances :
           LET own == EntriesOf(history, inst.id)
           IN  /\ manager_queryset(history, <<inst>>) = Range(own)
               /\ \A e \in manager_queryset(history, <<inst>>) : e.vals["id"] = inst.id
               /\ most_recent(history, inst, fields) = most_recent(own, inst, fields)
               /\ \A t \in Times :
                      as_of(history, inst, t, fields) = as_of(own, inst, t, fields)
               /\ \A i \in DOMAIN own :
                      /\ previous_entry(history, own[i]) = previous_entry(own, own[i])
                      /\ modified_fields(history, own[i], fields)
                             = modified_fields(own, own[i], fields)
    /\ manager_queryset(history, <<>>) = Range(history)

\* Both records have entries, written alternately; the newest entry of the
\* table belongs to record 2 and stores other values than the newest entry
\* of record 1; as_of returns an instance for some date.
C14_Witness ==
    /\ Len(history) >= 3
    /\ history[1].vals["id"] = 2 /\ history[2].vals["id"] = 1 /\ history[3].vals["id"] = 2
    /\ \E i \in DOMAIN history :
           /\ history[i].vals["id"] = 2
           /\ \A j \in DOMAIN history : history[j].history_id <= history[i].history_id
           /\ \E f \in ImportantNames \ {"id"} :
                  history[i].vals[f] # Latest(history, [id |-> 1]).vals[f]
    /\ \E inst \in ReadInstances, t \in Times : as_of(history, inst, t, fields).exc = ""

\* ------------------------------------------------------------------- C15
\* The entries of e's record with a smaller history_id than e.
Predecessors(e) ==
    {o \in Range(history) : o.vals["id"] = e.vals["id"] /\ o.history_id < e.history_id}

\* C15: for every entry e, modified_fields compares e with the entry p that
\* has the greatest history_id below e's among the entries of e's record, and
\* returns, in important-field order, one change (name, from = p's value,
\* to = e's value, label) for exactly the important fields in which p and e
\* differ; when e has no such entry it returns one change per important
\* field, from None to e's value.
C15_ModifiedFields ==
    \A i \in DOMAIN history :
        LET e == history[i]
            names == get_important_field_names(fields)
            m == modified_fields(history, e, fields)
        IN  IF Predecessors(e) = {}
            THEN /\ Len(m) = Len(names)
                 /\ \A j \in DOMAIN m :
                        m[j] = [name |-> names[j], from_value |-> <<>>,
                                to_value |-> e.vals[names[j]],
                                verbose_name |-> get_verbose_name(names[j])]
            ELSE LET p == CHOOSE o \in Predecessors(e) :
                              \A q \in Predecessors(e) : q.history_id <= o.history_id
                     differ == SelectSeq(names, LAMBDA f : p.vals[f] # e.vals[f])
                 IN  /\ Len(m) = Len(differ)
                     /\ \A j \in DOMAIN m :
                            m[j] = [name |-> differ[j], from_value |-> <<p.vals[differ[j]]>>,
                                    to_value |-> e.vals[differ[j]],
                                    verbose_name |-> get_verbose_name(differ[j])]

\* The third entry of a record went back to the values of the first: its
\* diff against the second entry is not empty, against the first it would be.
C15_Witness ==
    /\ Len(history) >= 3
    /\ \A i \in 1..3 : history[i].vals["id"] = 1
    /\ history[3].vals = history[1].vals
    /\ history[3].vals # history[2].vals
    /\ modified_fields(history, history[3], fields) # <<>>
    /\ modified_fields(history, history[1], fields) # <<>>

\* ------------------------------------------------------------------- C16
\* The important fields of the model being finalized, by name.
Selected == get_important_fields(NameSeq(sender.fields), fields)

\* C16: for every schema and every `fields` argument, a field is important
\* iff it is the schema's primary key, or no `fields` list was given, or its
\* name is in the list; the important fields are in schema order, and they
\* are the fields finalize copies into the historical model.
C16_ImportantFieldSelection ==
    /\ \A i \in DOMAIN sender.fields :
           sender.fields[i].name \in Range(Selected)
               <=> \/ sender.fields[i].primary_key
                   \/ ~fields.given
                   \/ sender.fields[i].name \in fields.names
    /\ Selected = SelectSeq(NameSeq(sender.fields), LAMBDA n : n \in Range(Selected))
    /\ history_model # <<>> =>
           {history_model[i].name : i \in DOMAIN history_model}
               = Range(Selected) \cup Range(NameSeq(HistoryEntryFields))

\* ------------------------------------------------------------------- C17
\* The copy of the source field f in the historical model.
Copy(f) == CHOOSE c \in Range(history_model) : c.name = f.name

\* C17: in the historical model history_id is the only field that is a
\* primary key or unique; the copy of every important field that was a
\* primary key, an AutoField, unique or one-to-one is neither, and is
\* indexed (the copy of a one-to-one field being a nullable ForeignKey to
\* the same model); and no entry created for a record is refused, whatever
\* entries the record has.
C17_OnlyHistoryIdUnique ==
    /\ history_model # <<>> =>
           /\ \A i \in DOMAIN history_model :
                  (history_model[i].primary_key \/ IsUnique(history_model[i]))
                      <=> history_model[i].name = "history_id"
           /\ \A i \in DOMAIN sender.fields :
                  LET f == sender.fields[i]
                  IN  (/\ f.name \in Range(Selected)
                       /\ \/ f.primary_key \/ IsUnique(f)
                          \/ f.cls \in {"AutoField", "OneToOneField"})
                          => /\ ~Copy(f).primary_key /\ ~IsUnique(Copy(f))
                             /\ Copy(f).db_index
                             /\ Copy(f).cls # "AutoField"
                             /\ f.cls = "OneToOneField" =>
                                    /\ Copy(f).cls = "ForeignKey"
                                    /\ Copy(f).null
                                    /\ Copy(f).to = f.to
    /\ lastOp.op = "create" => lastOp.wrote

\* The model has a one-to-one primary key and a unique column, both copied,
\* and a third entry with the values of the first two has just been created
\* for the record.
C17_Witness ==
    /\ lastOp.op = "create" /\ lastOp.wrote
    /\ Len(history) >= 3
    /\ history[1].vals = history[2].vals /\ history[2].vals = history[3].vals
    /\ \E i, j \in DOMAIN sender.fields :
           /\ sender.fields[i].primary_key /\ sender.fields[i].cls = "OneToOneField"
           /\ ~sender.fields[j].primary_key /\ sender.fields[j].unique
           /\ {sender.fields[i].attname, sender.fields[j].attname} \subseteq DOMAIN history[1].vals

\* ------------------------------------------------------------------- C18
\* C18: finalize() on a model that already has an attribute set_editor
\* raises and leaves the model's tracking as it was: no receiver is
\* connected, save is not wrapped again, the descriptor is not replaced; so
\* every later save or delete appends at most the one entry it would have
\* appended.
C18_ConflictLeavesTrackingAlone ==
    [][/\ (lastOp'.op = "finalize" /\ sender.set_editor) =>
              /\ finalize(sender, receivers, fields).exc # ""
              /\ receivers' = receivers
              /\ sender'.save_wraps = sender.save_wraps
              /\ sender'.descriptor = sender.descriptor
       /\ lastOp'.op \in {"save", "delete"} =>
              Len(history') <= Len(history) + 1]_vars

\* ------------------------------------------------------------------- C19
\* Both writers have read most_recent() with the same result and each holds
\* values that differ from it: both will create an entry.
BothCompareSamePrior ==
    /\ \A p \in Procs : writers[p].pc = "read"
    /\ \A p, q \in Procs : writers[p].mr = writers[q].mr
    /\ \A p \in Procs :
           post_save_write(history, writers[p].mr, next_history_id, now, writers[p].inst,
                           None, writers[p].created, fields) # history

\* Under the registration without a `fields` list no save is under way, and
\* the record's newest entry does not store the values of its row.
LatestNotPersisted ==
    /\ ~fields.given
    /\ Saving = 0
    /\ RowExists(table, 1)
    /\ get_queryset(history, IdleWriter.inst) # {}
    /\ Latest(history, IdleWriter.inst).vals # Stored(Row(table, 1))

\* C19, the serialized half: when each save's steps run without another
\* save's steps in between, two saves never compare against the same prior
\* entry, and when a save completes the record's newest entry stores the
\* values that save persisted, so that the newest entry holds the row's
\* values and every persisted value appears in the history.
C19_SerializedSavesKeepHistory ==
    [][/\ ~BothCompareSamePrior'
       /\ lastOp'.op = "create_record" =>
              \A p \in Procs :
                  (writers[p].pc = "read" /\ writers'[p].pc = "idle") =>
                      /\ get_queryset(history', writers[p].inst) # {}
                      /\ Latest(history', writers[p].inst).vals = Stored(writers[p].inst)
                      /\ Stored(writers[p].inst) = Stored(Row(table', 1))]_vars

\* ------------------------------------------------------------------- C20
\* C20: under the registration without a `fields` list, every entry of
\* type created or changed that has a predecessor for its record differs
\* from it in an important field: its modified_fields is not empty.
C20_EntriesDifferFromPredecessor ==
    ~fields.given =>
        \A i \in DOMAIN history :
            (/\ history[i].history_type \in {"+", "~"}
             /\ previous_entry(history, history[i]) # <<>>)
                => modified_fields(history, history[i], fields) # <<>>

====
